---- MODULE Spec2Model ----
(***************************************************************************)
(* Model of lazier.py: the lazy() decorator, the non-data descriptor it    *)
(* builds, and Python's attribute lookup on instances of a class Base that *)
(* carries the descriptor and of a subclass Sub.                           *)
(***************************************************************************)
EXTENDS Integers, Sequences, FiniteSets, TLC

VARIABLES cfg, slot, calls, misses, last

vars == <<cfg, slot, calls, misses, last>>

\* ------------------------------------------------------------------ bounds
MaxCalls == 2
MaxMisses == 2
RecursionLimit == 2

\* ----------------------------------------------------------- Python values
\* A Python value is a record [t: type name, s: string payload, n: integer
\* payload]; every value has the same fields so that values compare.
PyInt(n) == [t |-> "int", s |-> "", n |-> n]
PyStr(s) == [t |-> "str", s |-> s, n |-> 0]
PyBool(b) == [t |-> "bool", s |-> "", n |-> IF b THEN 1 ELSE 0]
NoneV == [t |-> "NoneType", s |-> "", n |-> 0]
\* class Singleton(str); VOLATILE = Singleton('VOLATILE')
VOLATILE == [t |-> "Singleton", s |-> "VOLATILE", n |-> 0]
\* no entry in the instance's __dict__
Absent == [t |-> "absent", s |-> "", n |-> 0]

\* values the producing functions of the model return
Produced == {PyInt(4), PyInt(7), PyStr("5"), VOLATILE}

\* bool(v)
Truthy(v) ==
    CASE v.t = "bool" -> v.n = 1
      [] v.t = "int" -> v.n # 0
      [] v.t \in {"str", "Singleton"} -> v.s # ""
      [] OTHER -> FALSE

\* isinstance(v, T) for the builtin types int and str
IsInstance(v, T) ==
    CASE T = "int" -> v.t \in {"int", "bool"}
      [] T = "str" -> v.t \in {"str", "Singleton"}
      [] OTHER -> FALSE

\* ---------------------------------------------------------------- outcomes
Val(v) == [kind |-> "value", val |-> v, err |-> "", fn |-> ""]
Raise(e) == [kind |-> "raise", val |-> NoneV, err |-> e, fn |-> ""]
Descriptor == [kind |-> "descriptor", val |-> NoneV, err |-> "", fn |-> ""]
BoundMethod(f) == [kind |-> "method", val |-> NoneV, err |-> "", fn |-> f]

\* ------------------------------------------------- user-supplied callables
Digits == <<"0", "1", "2", "3", "4", "5", "6", "7", "8", "9">>
IsDigit(s) == \E i \in 1..10 : Digits[i] = s
DigitOf(s) == (CHOOSE i \in 1..10 : Digits[i] = s) - 1

\* into=int : int(v)
IntOf(v) ==
    CASE v.t \in {"int", "bool"} -> Val(PyInt(v.n))
      [] v.t \in {"str", "Singleton"} ->
            IF IsDigit(v.s) THEN Val(PyInt(DigitOf(v.s))) ELSE Raise("ValueError")
      [] OTHER -> Raise("TypeError")

\* into=<conversion>
Into(c, v) == IF c = "int" THEN IntOf(v) ELSE Val(v)

\* require=<predicate>: the value the predicate returns, or the error it raises
\*   n_gt_5 = lambda n: n > 5      n_mod_2 = lambda n: n % 2
\*   len
StrLen(s) == IF s = "" THEN 0 ELSE IF s = "VOLATILE" THEN 8 ELSE 1

Requirement(p, v) ==
    IF p = "len"
    THEN IF v.t \in {"str", "Singleton"} THEN Val(PyInt(StrLen(v.s)))
         ELSE Raise("TypeError")
    ELSE IF v.t \notin {"int", "bool"} THEN Raise("TypeError")
    ELSE IF p = "n_gt_5" THEN Val(PyBool(v.n > 5))
    ELSE Val(PyInt(v.n % 2))

Types == {"int"}
Predicates == {"n_gt_5", "n_mod_2", "len"}

\* ------------------------------------------------------------ lazy(...) arguments
\* cfg.fn      : fn.__name__ of the decorated function
\* cfg.name    : the name argument ("None" when not given)
\* cfg.method  : the method argument ("None", "True" or "False")
\* cfg.require : "None", a type or a predicate
\* cfg.into    : "None" or a conversion
\* cfg.abstract: the abstract argument (the classes then derive from abc.ABC)
\* cfg.subOverrides : Sub defines its own get_x
Configs ==
    { c \in [fn : {"x", "get_x"}, name : {"None", "x"},
             method : {"None", "True", "False"},
             require : {"None"} \cup Types \cup Predicates,
             into : {"None", "int"},
             abstract : BOOLEAN, subOverrides : BOOLEAN] :
        \* the lazy attribute of the model is always called x
        /\ (IF c.name = "None" THEN c.fn ELSE c.name) = "x"
        \* abstract is only read in the named form (fn is get_x), and only
        \* there does an overriding get_x in Sub meet the descriptor
        /\ c.fn = "x" => ~c.abstract /\ ~c.subOverrides /\ c.name = "None"
        \* every requirement alone, two of them together with a conversion
        /\ c.into # "None" => c.require \in {"None", "int", "n_gt_5"} }

\* name = fn.__name__ if name is None
Name == IF cfg.name = "None" THEN cfg.fn ELSE cfg.name

\* method biased to True when the name differs from the function's
Method ==
    IF cfg.name # "None" /\ cfg.name # cfg.fn /\ cfg.method = "None"
    THEN "True" ELSE cfg.method

\* the method the source calls: fn.__name__ if method is True
SrcMethod == cfg.fn

\* if method: the source is a method call, else the function itself
IsMethodSrc == Method = "True"

\* the source calls the method that carries the lazy attribute's own name
SelfSource == IsMethodSrc /\ SrcMethod = Name

\* faulty variant of type_checker: the isinstance test left out
type_checker_unchecked(isa, obj) == Val(obj)

\* type_checker(isa)(obj)
type_checker(isa, obj) ==
    IF ~IsInstance(obj, isa) THEN Raise("TypeError") ELSE Val(obj)

\* faulty variant of requirement_checker: "if not requirement(obj)"
requirement_checker_falsy(requirement, obj) ==
    LET r == Requirement(requirement, obj) IN
    IF r.kind = "raise" THEN r
    ELSE IF ~Truthy(r.val) THEN Raise("ValueError")
    ELSE Val(obj)

\* requirement_checker(requirement)(obj)
requirement_checker(requirement, obj) ==
    LET r == Requirement(requirement, obj) IN
    IF r.kind = "raise" THEN r
    ELSE IF r.val = PyBool(FALSE) THEN Raise("ValueError")
    ELSE Val(obj)

\* the checker chosen from require
Checker(o) ==
    IF cfg.require \in Types THEN type_checker(cfg.require, o)
    ELSE requirement_checker(cfg.require, o)

\* prepare = lambda o: into(prepare(o)) : the name prepare inside the lambda
\* is the enclosing variable, which by then holds the lambda itself
RECURSIVE LambdaPrepare(_, _)
LambdaPrepare(o, depth) ==
    IF depth >= RecursionLimit THEN Raise("RecursionError")
    ELSE LET r == LambdaPrepare(o, depth + 1) IN
         IF r.kind = "raise" THEN r ELSE Into(cfg.into, r.val)

HasPrepare == cfg.require # "None" \/ cfg.into # "None"

\* prepare(result)
Prepare(o) ==
    IF cfg.into = "None" THEN Checker(o)
    ELSE IF cfg.require = "None" THEN Into(cfg.into, o)
    ELSE LambdaPrepare(o, 0)

\* ------------------------------------------------------------------ classes
Instances == {"b", "s"}
ClassOf(o) == IF o = "b" THEN "Base" ELSE "Sub"

\* faulty variant of ClassAttr: configure_class_for_lazy without
\* setattr(cls, fn.__name__, fn)
ClassAttrNoRestore(cls, attr) ==
    IF cls = "Base" THEN
        IF attr = Name \/ attr = cfg.fn THEN "descriptor" ELSE "absent"
    ELSE
        IF attr = "get_x" /\ cfg.subOverrides THEN "sub_get_x" ELSE "absent"

\* the class's own __dict__ after class creation
ClassAttr(cls, attr) ==
    IF cls = "Base" THEN
        IF attr = Name THEN "descriptor"
        ELSE IF attr = cfg.fn THEN "fn"
        ELSE "absent"
    ELSE
        IF attr = "get_x" /\ cfg.subOverrides THEN "sub_get_x" ELSE "absent"

\* faulty variant of Lookup: the subclass's own attributes are not consulted
LookupBaseOnly(cls, attr) == ClassAttr("Base", attr)

\* lookup along the MRO (Sub, Base)
Lookup(cls, attr) ==
    IF cls = "Sub" /\ ClassAttr("Sub", attr) # "absent"
    THEN ClassAttr("Sub", attr) ELSE ClassAttr("Base", attr)

\* fn = abc.abstractmethod(fn) in the named form; a class whose get_x is
\* still the abstract fn cannot be instantiated
CanInstantiate(cls) ==
    ~(cfg.abstract /\ Name # cfg.fn /\ Lookup(cls, cfg.fn) = "fn")

\* ------------------------------------------------------- attribute lookup
\* The result of evaluating an attribute read: the outcome, the instance's
\* slot afterwards, the number of producing-function bodies run, which one
\* ran and the value it returned.
Res(out, d, n, f) ==
    [out |-> out, d |-> d, calls |-> n, invoked |-> f, produced |-> NoneV]
Ran(v, d, n, f) ==
    [out |-> Val(v), d |-> d, calls |-> n, invoked |-> f, produced |-> v]

RECURSIVE GetAttr(_, _, _, _, _)
RECURSIVE getter(_, _, _, _)
RECURSIVE src(_, _, _, _)

\* src(obj): fn itself, or getattr(obj, name)()
src(d, cls, v, depth) ==
    IF ~IsMethodSrc THEN Ran(v, d, 1, "fn")
    ELSE LET g == GetAttr(d, cls, SrcMethod, v, depth) IN
         IF g.out.kind = "raise" THEN g
         ELSE IF g.out.kind = "method"
              THEN Ran(v, g.d, g.calls + 1, g.out.fn)
              ELSE [g EXCEPT !.out = Raise("TypeError")]

\* faulty variants of Store: a getter that never stores, one that always stores
StoreNothing(d, result) == d
StoreAlways(d, result) == result

\* what the getter does with the prepared result
Store(d, result) == IF result # VOLATILE THEN result ELSE d

\* getter(self, obj, cls) with cls the owner class (the descriptor protocol
\* always passes it)
getter(d, cls, v, depth) ==
    IF depth >= RecursionLimit THEN Res(Raise("RecursionError"), d, 0, "none")
    ELSE LET r == src(d, cls, v, depth + 1) IN
         IF r.out.kind = "raise" THEN r
         ELSE LET p == IF HasPrepare THEN Prepare(r.out.val) ELSE r.out IN
              IF p.kind = "raise" THEN [r EXCEPT !.out = p]
              ELSE [r EXCEPT !.out = p, !.d = Store(r.d, p.val)]

\* faulty variant of GetAttr: a data descriptor, consulted before the __dict__
GetAttrDescriptorFirst(d, cls, attr, v, depth) ==
    LET a == Lookup(cls, attr) IN
    CASE a = "descriptor" -> getter(d, cls, v, depth)
      [] a = "absent" -> Res(Raise("AttributeError"), d, 0, "none")
      [] OTHER -> Res(BoundMethod(a), d, 0, "none")

\* getattr(obj, attr): the instance __dict__ shadows a non-data descriptor
GetAttr(d, cls, attr, v, depth) ==
    IF attr = Name /\ d # Absent THEN Res(Val(d), d, 0, "none")
    ELSE LET a == Lookup(cls, attr) IN
         CASE a = "descriptor" -> getter(d, cls, v, depth)
           [] a = "absent" -> Res(Raise("AttributeError"), d, 0, "none")
           [] OTHER -> Res(BoundMethod(a), d, 0, "none")

\* getter(self, None, cls): the attribute read on the class; obj is None
getterOnClass(v) ==
    LET r == IF ~IsMethodSrc THEN Ran(v, Absent, 1, "fn")
             ELSE Res(Raise("AttributeError"), Absent, 0, "none") IN
    IF r.out.kind = "raise" THEN r
    ELSE LET p == IF HasPrepare THEN Prepare(r.out.val) ELSE r.out IN
         IF p.kind = "raise" THEN [r EXCEPT !.out = p]
         ELSE IF p.val # VOLATILE
              THEN [r EXCEPT !.out = Raise("AttributeError")]
              ELSE [r EXCEPT !.out = p]

\* -------------------------------------------------------------------- state
Op(op, o, had, r) ==
    [op |-> op, obj |-> o, hadSlot |-> had, out |-> r.out,
     ncalls |-> r.calls, invoked |-> r.invoked, produced |-> r.produced]

Init ==
    /\ cfg \in Configs
    /\ slot = [o \in Instances |-> Absent]
    /\ calls = [o \in Instances |-> 0]
    /\ misses = [o \in Instances |-> 0]
    /\ last = Op("none", "b", FALSE, Res(Val(NoneV), Absent, 0, "none"))

\* obj.x
Read(o) ==
    /\ CanInstantiate(ClassOf(o))
    /\ calls[o] < MaxCalls
    /\ slot[o] = Absent => misses[o] < MaxMisses
    /\ \E v \in (IF slot[o] = Absent THEN Produced ELSE {NoneV}) :
         LET r == GetAttr(slot[o], ClassOf(o), Name, v, 0) IN
         /\ slot' = [slot EXCEPT ![o] = r.d]
         /\ calls' = [calls EXCEPT ![o] = @ + r.calls]
         /\ misses' = [misses EXCEPT ![o] = IF slot[o] = Absent THEN @ + 1 ELSE @]
         /\ last' = Op("read", o, slot[o] # Absent, r)
    /\ UNCHANGED cfg

\* obj.get_x(): a call made by the program itself, counted in last.ncalls
\* and not in calls, which counts the invocations that reads made
CallGetX(o) ==
    /\ CanInstantiate(ClassOf(o))
    /\ \E v \in (IF Lookup(ClassOf(o), "get_x") = "absent"
                 THEN {NoneV} ELSE Produced) :
         LET g == GetAttr(slot[o], ClassOf(o), "get_x", v, 0)
             r == CASE g.out.kind = "method" ->
                          Ran(v, g.d, g.calls + 1, g.out.fn)
                    [] g.out.kind = "raise" -> g
                    [] OTHER -> [g EXCEPT !.out = Raise("TypeError")] IN
         /\ slot' = [slot EXCEPT ![o] = r.d]
         /\ last' = Op("call", o, slot[o] # Absent, r)
    /\ UNCHANGED <<cfg, calls, misses>>

\* del obj.x
Delete(o) ==
    /\ CanInstantiate(ClassOf(o))
    /\ slot' = [slot EXCEPT ![o] = Absent]
    /\ last' = Op("delete", o, slot[o] # Absent,
                  Res(IF slot[o] # Absent THEN Val(NoneV)
                      ELSE Raise("AttributeError"), Absent, 0, "none"))
    /\ UNCHANGED <<cfg, calls, misses>>

\* Base.x
ClassRead ==
    /\ \E v \in (IF IsMethodSrc THEN {NoneV} ELSE Produced) :
         last' = Op("classread", "b", FALSE, getterOnClass(v))
    /\ UNCHANGED <<cfg, slot, calls, misses>>

\* descriptor.__get__(obj) called by hand with no owner class
GetNoOwner(o) ==
    /\ CanInstantiate(ClassOf(o))
    /\ last' = Op("get1", o, slot[o] # Absent, Res(Descriptor, Absent, 0, "none"))
    /\ UNCHANGED <<cfg, slot, calls, misses>>

Next ==
    \/ \E o \in Instances : Read(o)
    \/ \E o \in Instances : CallGetX(o)
    \/ \E o \in Instances : Delete(o)
    \/ ClassRead
    \/ \E o \in Instances : GetNoOwner(o)

Spec == Init /\ [][Next]_vars

\* reads and deletions only
NextRW ==
    \/ \E o \in Instances : Read(o)
    \/ \E o \in Instances : Delete(o)

SpecRW == Init /\ [][NextRW]_vars

\* ------------------------------------------------------------------ scopes
\* the producing function is called directly and the result is not prepared
PlainDirect == ~IsMethodSrc /\ ~HasPrepare

\* ------------------------------------------------------------------ claims

\* C1: for a lazy attribute with no require/into whose source is the
\* producing function f itself, a read that finds no slot invokes f exactly
\* once and, when f returned a non-sentinel value, returns it and stores it;
\* a read that finds the slot invokes nothing, changes nothing and returns
\* the stored value.
C1_ComputeOnce ==
    [][ (PlainDirect /\ last'.op = "read") =>
          LET o == last'.obj IN
          IF slot[o] # Absent
          THEN /\ calls' = calls
               /\ slot' = slot
               /\ last'.out = Val(slot[o])
          ELSE /\ calls' = [calls EXCEPT ![o] = @ + 1]
               /\ last'.invoked = "fn"
               /\ last'.out = Val(last'.produced)
               /\ last'.produced # VOLATILE =>
                     slot' = [slot EXCEPT ![o] = last'.produced] ]_vars

\* a second read has returned the value the first one computed
C1_Witness ==
    /\ PlainDirect
    /\ last.op = "read" /\ last.hadSlot
    /\ calls[last.obj] = 1 /\ misses[last.obj] = 1
    /\ last.out = Val(slot[last.obj])

\* C2: for a lazy attribute with no require/into whose producing function
\* returns VOLATILE, every read invokes the function again, returns the
\* sentinel and creates no slot.
C2_VolatileNeverCached ==
    [][ (PlainDirect /\ last'.op = "read" /\ last'.produced = VOLATILE) =>
          LET o == last'.obj IN
          /\ slot[o] = Absent
          /\ calls' = [calls EXCEPT ![o] = @ + 1]
          /\ last'.out = Val(VOLATILE)
          /\ slot' = slot ]_vars

\* two reads, two invocations, both returned the sentinel, no slot
C2_Witness ==
    /\ PlainDirect
    /\ last.op = "read" /\ last.out = Val(VOLATILE)
    /\ calls[last.obj] = 2 /\ misses[last.obj] = 2
    /\ slot[last.obj] = Absent

\* C3: in any sequence of reads and deletions, a read that finds the slot
\* invokes nothing and leaves the slot as it is, a read that finds no slot
\* invokes the producing function exactly once and stores the value it
\* returns to the reader unless that is the sentinel, a deletion invokes
\* nothing, and the number of invocations equals the number of reads that
\* found no slot.
C3_NoSilentRecompute ==
    [][ ~SelfSource =>
          /\ calls' = misses'
          /\ last'.op = "read" =>
                LET o == last'.obj IN
                IF slot[o] # Absent
                THEN calls' = calls /\ slot' = slot /\ last'.out = Val(slot[o])
                ELSE /\ calls' = [calls EXCEPT ![o] = @ + 1]
                     /\ (last'.out.kind = "value" /\ last'.out.val # VOLATILE)
                          => slot' = [slot EXCEPT ![o] = last'.out.val]
          /\ last'.op = "delete" =>
                /\ calls' = calls
                /\ slot' = [slot EXCEPT ![last'.obj] = Absent] ]_vars

\* a value was stored, deleted, and the next read computed and stored again
C3_Witness ==
    /\ ~SelfSource
    /\ last.op = "read" /\ ~last.hadSlot
    /\ calls[last.obj] = 2 /\ misses[last.obj] = 2
    /\ slot[last.obj] # Absent /\ slot[last.obj] = last.out.val

\* a requirement and no conversion, on a source that is a producing function
RequireOnly == cfg.require # "None" /\ cfg.into = "None" /\ ~SelfSource

\* C4: a read whose produced value fails the requirement raises the error
\* to the reader and creates no slot, so that the next read invokes the
\* producing function again; with require=<type> a value that is not an
\* instance of the type fails with TypeError.
C4_FailedValidationNotCached ==
    [][ (RequireOnly /\ last'.op = "read" /\ slot[last'.obj] = Absent) =>
          LET o == last'.obj
              v == last'.produced IN
          /\ calls' = [calls EXCEPT ![o] = @ + 1]
          /\ last'.out.kind = "raise" => slot' = slot
          /\ (cfg.require \in Types /\ ~IsInstance(v, cfg.require)) =>
                last'.out = Raise("TypeError") /\ slot' = slot
          /\ (cfg.require \in Predicates
                /\ Requirement(cfg.require, v) = Val(PyBool(FALSE))) =>
                last'.out = Raise("ValueError") /\ slot' = slot ]_vars

\* a type mismatch was raised twice in a row, the function invoked each time
C4_Witness ==
    /\ RequireOnly /\ cfg.require \in Types
    /\ last.op = "read" /\ last.out = Raise("TypeError")
    /\ ~IsInstance(last.produced, cfg.require)
    /\ calls[last.obj] = 2 /\ slot[last.obj] = Absent

\* a predicate requirement and no conversion
PredicateOnly == RequireOnly /\ cfg.require \in Predicates

\* C5 as stated: if p(v) is false in a boolean context the read fails with
\* a validation error and nothing is cached; otherwise the read returns v
\* and caches v.
C5_FalsyFails ==
    (PredicateOnly /\ last.op = "read" /\ ~last.hadSlot
        /\ Requirement(cfg.require, last.produced).kind = "value") =>
      IF ~Truthy(Requirement(cfg.require, last.produced).val)
      THEN last.out = Raise("ValueError") /\ slot[last.obj] = Absent
      ELSE last.out = Val(last.produced) /\ slot[last.obj] = last.produced

\* C5 amended: if p(v) is the object False the read fails with a validation
\* error and nothing is cached; if p(v) is any other value, falsy ones
\* included, the read returns v and caches v unless v is the sentinel; if p
\* raises, the read raises the same and nothing is cached.
C5_OnlyFalseFails ==
    (PredicateOnly /\ last.op = "read" /\ ~last.hadSlot) =>
      LET r == Requirement(cfg.require, last.produced) IN
      CASE r.kind = "raise" -> last.out = r /\ slot[last.obj] = Absent
        [] r = Val(PyBool(FALSE)) ->
             last.out = Raise("ValueError") /\ slot[last.obj] = Absent
        [] OTHER ->
             /\ last.out = Val(last.produced)
             /\ slot[last.obj] =
                  IF last.produced = VOLATILE THEN Absent ELSE last.produced

\* a value whose predicate result is falsy but not False was returned and cached
C5_Witness ==
    /\ PredicateOnly /\ last.op = "read" /\ ~last.hadSlot
    /\ Requirement(cfg.require, last.produced) = Val(PyInt(0))
    /\ last.out = Val(last.produced)
    /\ slot[last.obj] = last.produced

\* C6: with both require and into, a read checks the produced value first,
\* converts second, terminates, and returns and caches into(v) when v
\* passes (raises the requirement error, caching nothing, when not).
C6_CheckThenConvert ==
    (cfg.require # "None" /\ cfg.into # "None" /\ ~SelfSource
        /\ last.op = "read" /\ ~last.hadSlot) =>
      LET c == IF cfg.require \in Types
               THEN IF IsInstance(last.produced, cfg.require)
                    THEN Val(last.produced) ELSE Raise("TypeError")
               ELSE LET r == Requirement(cfg.require, last.produced) IN
                    IF r.kind = "raise" THEN r
                    ELSE IF r.val = PyBool(FALSE) THEN Raise("ValueError")
                    ELSE Val(last.produced) IN
      IF c.kind = "raise"
      THEN last.out = c /\ slot[last.obj] = Absent
      ELSE /\ last.out = Into(cfg.into, c.val)
           /\ (last.out.kind = "value" /\ last.out.val # VOLATILE) =>
                 slot[last.obj] = last.out.val

\* C7: reading the attribute on the class returns the descriptor, invokes
\* the producing function zero times and creates no slot.
C7_ClassReadReturnsDescriptor ==
    last.op = "classread" =>
      /\ last.out = Descriptor
      /\ last.ncalls = 0

\* C8: with method=True and no explicit name, a read on an instance invokes
\* the method named fn.__name__, terminates, and caches the result as the
\* direct form does.
C8_MethodTrueTerminates ==
    (cfg.method = "True" /\ cfg.name = "None" /\ ~HasPrepare
        /\ last.op = "read" /\ ~last.hadSlot) =>
      /\ last.ncalls = 1
      /\ last.out = Val(last.produced)
      /\ last.produced # VOLATILE => slot[last.obj] = last.produced

\* the function is decorated under another name than its own
NamedForm == cfg.fn # Name

\* C9: in the named form, obj.get_x() invokes the function found under
\* get_x afresh on every call (the decorated function on a Base instance),
\* returns what it produces and leaves the slot x and the count of the
\* reads' invocations as they are, whether x is cached or not;
\* obj.x computes on a read that finds no slot and stores the value under x.
C9_GetXUncached ==
    [][ NamedForm =>
          LET o == last'.obj IN
          /\ last'.op = "call" =>
                /\ slot' = slot /\ misses' = misses /\ calls' = calls
                /\ last'.ncalls = 1
                /\ last'.invoked = Lookup(ClassOf(o), "get_x")
                /\ ClassOf(o) = "Base" => last'.invoked = "fn"
                /\ last'.out = Val(last'.produced)
          /\ last'.op = "read" =>
                IF slot[o] # Absent
                THEN calls' = calls /\ slot' = slot /\ last'.out = Val(slot[o])
                ELSE /\ calls' = [calls EXCEPT ![o] = @ + 1]
                     /\ last'.invoked =
                          IF IsMethodSrc THEN Lookup(ClassOf(o), "get_x") ELSE "fn"
                     /\ (last'.out.kind = "value" /\ last'.out.val # VOLATILE)
                          => slot' = [slot EXCEPT ![o] = last'.out.val] ]_vars

\* get_x was called while x was cached, produced another value, x kept its own
C9_Witness ==
    /\ NamedForm
    /\ last.op = "call" /\ last.hadSlot /\ last.out.kind = "value"
    /\ last.ncalls = 1 /\ calls[last.obj] = 1 /\ misses[last.obj] = 1
    /\ slot[last.obj] # Absent /\ slot[last.obj] # last.out.val

\* the lazy attribute is bound to get_x and Sub overrides get_x
Overridden == NamedForm /\ IsMethodSrc /\ cfg.subOverrides

\* C10: with x bound to method get_x and get_x overridden in Sub, a read of
\* x that finds no slot invokes Sub's get_x on a Sub instance and Base's on
\* a Base instance and stores the value; a read that finds the slot returns
\* the stored value without another invocation.
C10_SubclassOverride ==
    [][ (Overridden /\ last'.op = "read") =>
          LET o == last'.obj IN
          IF slot[o] # Absent
          THEN calls' = calls /\ slot' = slot /\ last'.out = Val(slot[o])
          ELSE /\ calls' = [calls EXCEPT ![o] = @ + 1]
               /\ last'.invoked =
                    IF ClassOf(o) = "Sub" THEN "sub_get_x" ELSE "fn"
               /\ (last'.out.kind = "value" /\ last'.out.val # VOLATILE)
                    => slot' = [slot EXCEPT ![o] = last'.out.val] ]_vars

\* a Sub instance was read twice, the second read served from the slot, and
\* a Base instance holds a value of its own
C10_Witness ==
    /\ Overridden
    /\ last.op = "read" /\ last.obj = "s" /\ last.hadSlot
    /\ calls["s"] = 1 /\ last.out = Val(slot["s"])
    /\ calls["b"] = 1 /\ slot["b"] # Absent

====
